---- MODULE Spec2Model ----
(***************************************************************************)
(* Model of nicegui/elements/element.py: the Element wrapper around a      *)
(* justpy view.  Python strings are sequences of one-character strings, so *)
(* that split / strip / join are computed character by character.          *)
(***************************************************************************)
EXTENDS Integers, Sequences, FiniteSets, TLC

VARIABLES
    view_classes,   \* self.view.classes : str
    view_style,     \* self.view.style : str
    view_attrs,     \* the view attributes props() reads and writes (getattr default None)
    view_children,  \* number of tooltip components added to self.view
    loop_running,   \* whether asyncio.get_running_loop() succeeds
    tasks,          \* view.update() tasks scheduled on the loop and not yet run
    bindings,       \* the bind_from / bind_to registrations, in call order
    last            \* the last Element method called: arguments and outcome

vars == <<view_classes, view_style, view_attrs, view_children, loop_running,
          tasks, bindings, last>>

----------------------------------------------------------------------------
(* Bounds *)

\* pieces (class names, style declarations, props) passed in one call, all
\* arguments together
MaxPieces == 2
\* view.update() tasks pending on the event loop
MaxTasks == 2
\* tooltips added to one element
MaxChildren == 2
\* bind_from / bind_to registrations kept
MaxBindings == 3

----------------------------------------------------------------------------
(* Python values *)

\* None and True are one-element sequences no Python string of the model equals
None == <<"<None>">>
PyTrue == <<"<True>">>
\* the empty str
Empty == <<>>

\* `x or ''`
OrEmpty(s) == IF s = None THEN Empty ELSE s

\* truthiness of an Optional[str]: `if s`
Truthy(s) == s # None /\ s # Empty

Range(f) == {f[i] : i \in DOMAIN f}

RECURSIVE SplitWsAcc(_, _, _)
SplitWsAcc(s, cur, out) ==
    IF s = <<>> THEN (IF cur = <<>> THEN out ELSE Append(out, cur))
    ELSE IF Head(s) = " "
         THEN SplitWsAcc(Tail(s), <<>>, IF cur = <<>> THEN out ELSE Append(out, cur))
         ELSE SplitWsAcc(Tail(s), Append(cur, Head(s)), out)

\* str.split(): the maximal runs of non-blank characters
SplitWs(s) == SplitWsAcc(s, <<>>, <<>>)

RECURSIVE SplitOnAcc(_, _, _, _)
SplitOnAcc(s, sep, cur, out) ==
    IF s = <<>> THEN Append(out, cur)
    ELSE IF Head(s) = sep
         THEN SplitOnAcc(Tail(s), sep, <<>>, Append(out, cur))
         ELSE SplitOnAcc(Tail(s), sep, Append(cur, Head(s)), out)

\* str.split(sep): every occurrence of sep cuts, empty fields are kept
SplitOn(s, sep) == SplitOnAcc(s, sep, <<>>, <<>>)

RECURSIVE LStrip(_, _)
LStrip(s, chars) ==
    IF s # <<>> /\ Head(s) \in chars THEN LStrip(Tail(s), chars) ELSE s

RECURSIVE RStrip(_, _)
RStrip(s, chars) ==
    IF s # <<>> /\ s[Len(s)] \in chars THEN RStrip(SubSeq(s, 1, Len(s) - 1), chars) ELSE s

\* str.strip(chars)
Strip(s, chars) == RStrip(LStrip(s, chars), chars)

RECURSIVE Join(_, _)
\* sep.join(list)
Join(sep, ls) ==
    IF ls = <<>> THEN <<>>
    ELSE IF Len(ls) = 1 THEN ls[1]
    ELSE ls[1] \o sep \o Join(sep, Tail(ls))

RECURSIVE DedupAcc(_, _)
DedupAcc(ls, out) ==
    IF ls = <<>> THEN out
    ELSE DedupAcc(Tail(ls), IF Head(ls) \in Range(out) THEN out ELSE Append(out, Head(ls)))

\* FromKeys without the deduplication: the list as it is
keep_duplicates(ls) == ls

\* list(dict.fromkeys(ls)): duplicates removed, first occurrences kept in order
FromKeys(ls) == DedupAcc(ls, <<>>)

----------------------------------------------------------------------------
(* Python dicts: a dict is the sequence of its <<key, value>> items in         *)
(* insertion order                                                             *)

Keys(d) == [i \in DOMAIN d |-> d[i][1]]

HasKey(d, k) == \E i \in DOMAIN d : d[i][1] = k

\* d[k] = v: an existing key keeps its position, a new key goes last
SetItem(d, k, v) ==
    IF HasKey(d, k) THEN [i \in DOMAIN d |-> IF d[i][1] = k THEN <<k, v>> ELSE d[i]]
    ELSE Append(d, <<k, v>>)

\* del d[k], for a key d has
DelItem(d, k) == SelectSeq(d, LAMBDA item : item[1] # k)

RECURSIVE DictUpdate(_, _)
\* d.update(items), and dict(items) when d is empty
DictUpdate(d, items) ==
    IF items = <<>> THEN d
    ELSE DictUpdate(SetItem(d, Head(items)[1], Head(items)[2]), Tail(items))

----------------------------------------------------------------------------
(* Element.update *)

\* update() without the get_running_loop() test: it schedules regardless
update_without_loop_test(n) == tasks + n

\* the tasks pending once the handler has called update() n times
update(n) == IF loop_running THEN tasks + n ELSE tasks

NoError == "none"

\* the record of a finished call: the add argument, the names the remove
\* argument lists, whether add was the only argument passed, the exception
\* raised and the number of update() calls made
Call(op, add, remove_names, only_add, raised, updates) ==
    [op |-> op, add |-> add, remove_names |-> remove_names, only_add |-> only_add,
     raised |-> raised, updates |-> updates]

----------------------------------------------------------------------------
(* Element.classes *)

\* the list comprehension of line 57
class_filter(class_list, remove) ==
    SelectSeq(class_list, LAMBDA c : c \notin Range(SplitWs(OrEmpty(remove))))

\* new_classes of lines 56-60
new_classes(old, add, remove, replace) ==
    LET class_list == IF replace = None THEN SplitWs(old) ELSE <<>>
        kept == class_filter(class_list, remove)
    IN  Join(<<" ">>, FromKeys(kept \o SplitWs(OrEmpty(add)) \o SplitWs(OrEmpty(replace))))

classes(add, remove, replace) ==
    \E new \in {new_classes(view_classes, add, remove, replace)} :
    \E n \in {IF view_classes # new THEN 1 ELSE 0} :
        /\ update(n) <= MaxTasks
        /\ view_classes' = new
        /\ tasks' = update(n)
        /\ last' = Call("classes", add, Range(SplitWs(OrEmpty(remove))),
                        remove = None /\ replace = None, NoError, n)
        /\ UNCHANGED <<view_style, view_attrs, view_children, loop_running, bindings>>

----------------------------------------------------------------------------
(* Element.style *)

\* the fields of one declaration: part.split(':'), each word stripped
style_fields(part) ==
    LET words == SplitOn(part, ":")
    IN  [i \in DOMAIN words |-> Strip(words[i], {" "})]

\* dict(items): ValueError unless every item has exactly two fields
style_dict(items) ==
    IF \A i \in DOMAIN items : Len(items[i]) = 2
    THEN [ok |-> TRUE, dict |-> DictUpdate(<<>>, items)]
    ELSE [ok |-> FALSE, dict |-> <<>>]

\* the items of `s`, one per s.split(';') part
style_items(parts) == [i \in DOMAIN parts |-> style_fields(parts[i])]

\* str_to_dict of lines 72-73
style_str_to_dict(s) ==
    IF ~Truthy(s) THEN [ok |-> TRUE, dict |-> <<>>]
    ELSE style_dict(style_items(SplitOn(s, ";")))

RECURSIVE style_remove(_, _)
\* the loop of lines 75-76: del raises KeyError at the first key style_dict lacks
style_remove(dict, keys) ==
    IF keys = <<>> THEN [ok |-> TRUE, dict |-> dict]
    ELSE IF ~HasKey(dict, Head(keys)) THEN [ok |-> FALSE, dict |-> dict]
    ELSE style_remove(DelItem(dict, Head(keys)), Tail(keys))

\* line 79
style_format(dict) ==
    Join(<<";">>, [i \in DOMAIN dict |-> dict[i][1] \o <<":">> \o dict[i][2]])

\* lines 77-79, from the dict the removal loop left
style_merge(old, del, a, r) ==
    IF ~del.ok THEN [raised |-> "KeyError", value |-> old]
    ELSE IF ~a.ok THEN [raised |-> "ValueError", value |-> old]
    ELSE IF ~r.ok THEN [raised |-> "ValueError", value |-> old]
    ELSE [raised |-> NoError,
          value |-> style_format(DictUpdate(DictUpdate(del.dict, a.dict), r.dict))]

\* lines 75-79, from the parsed style of the view and the parsed remove
style_steps(old, cur, rem, add, replace) ==
    IF ~cur.ok \/ ~rem.ok THEN [raised |-> "ValueError", value |-> old]
    ELSE style_merge(old, style_remove(cur.dict, Keys(rem.dict)),
                     style_str_to_dict(add), style_str_to_dict(replace))

\* lines 74-79: the exception raised, or the new style string
new_style(old, add, remove, replace) ==
    style_steps(old,
                IF replace = None THEN style_str_to_dict(Strip(OrEmpty(old), {";", " "}))
                ELSE [ok |-> TRUE, dict |-> <<>>],
                style_str_to_dict(remove), add, replace)

style(add, remove, replace) ==
    \E new \in {new_style(view_style, add, remove, replace)} :
    \E n \in {IF new.raised = NoError /\ view_style # new.value THEN 1 ELSE 0} :
        /\ update(n) <= MaxTasks
        /\ view_style' = new.value
        /\ tasks' = update(n)
        /\ last' = Call("style", add, Range(Keys(style_str_to_dict(remove).dict)),
                        remove = None /\ replace = None, new.raised, n)
        /\ UNCHANGED <<view_classes, view_attrs, view_children, loop_running, bindings>>

----------------------------------------------------------------------------
(* Element.props *)

\* getattr(self.view, key, None)
getattr(attrs, key) == IF key \in DOMAIN attrs THEN attrs[key] ELSE None

\* setattr(self.view, key, value)
setattr(attrs, key, value) ==
    [k \in DOMAIN attrs \cup {key} |-> IF k = key THEN value ELSE attrs[k]]

\* prop_item that takes every prop for a boolean one
prop_item_boolean(prop) == <<SplitOn(prop, "=")[1], PyTrue>>

\* one item of the dict comprehension of line 93
prop_item(prop) ==
    <<SplitOn(prop, "=")[1],
      IF "=" \in Range(prop) THEN SplitOn(prop, "=")[2] ELSE PyTrue>>

prop_items(props) == [i \in DOMAIN props |-> prop_item(props[i])]

\* str_to_dict of lines 92-93
props_str_to_dict(s) ==
    IF ~Truthy(s) THEN <<>> ELSE DictUpdate(<<>>, prop_items(SplitWs(s)))

RECURSIVE props_remove(_, _, _)
\* the loop of lines 95-98
props_remove(attrs, keys, needs_update) ==
    IF keys = <<>> THEN [attrs |-> attrs, needs_update |-> needs_update]
    ELSE props_remove(setattr(attrs, Head(keys), None), Tail(keys),
                      needs_update \/ getattr(attrs, Head(keys)) # None)

RECURSIVE props_add(_, _, _)
\* the loop of lines 99-102
props_add(attrs, items, needs_update) ==
    IF items = <<>> THEN [attrs |-> attrs, needs_update |-> needs_update]
    ELSE props_add(setattr(attrs, Head(items)[1], Head(items)[2]), Tail(items),
                   needs_update \/ getattr(attrs, Head(items)[1]) # Head(items)[2])

\* lines 99-102, from what the removal loop left
props_after(removed, add) ==
    props_add(removed.attrs, props_str_to_dict(add), removed.needs_update)

\* lines 94-102
new_props(attrs, add, remove) ==
    props_after(props_remove(attrs, Keys(props_str_to_dict(remove)), FALSE), add)

props(add, remove) ==
    \E new \in {new_props(view_attrs, add, remove)} :
    \E n \in {IF new.needs_update THEN 1 ELSE 0} :
        /\ update(n) <= MaxTasks
        /\ view_attrs' = new.attrs
        /\ tasks' = update(n)
        /\ last' = Call("props", add, Range(Keys(props_str_to_dict(remove))),
                        remove = None, NoError, n)
        /\ UNCHANGED <<view_classes, view_style, view_children, loop_running, bindings>>

----------------------------------------------------------------------------
(* Element.tooltip *)

\* lines 109-113: setattr(tooltip, *prop.split('=')) raises TypeError unless the
\* prop splits in two
tooltip_raises(tip_props) ==
    \E prop \in Range(SplitWs(tip_props)) :
        "=" \in Range(prop) /\ Len(SplitOn(prop, "=")) # 2

tooltip(tip_props) ==
    IF tooltip_raises(tip_props)
    THEN /\ last' = Call("tooltip", tip_props, {}, TRUE, "TypeError", 0)
         /\ UNCHANGED <<view_classes, view_style, view_attrs, view_children,
                        loop_running, tasks, bindings>>
    ELSE /\ view_children < MaxChildren
         /\ update(1) <= MaxTasks
         /\ view_children' = view_children + 1
         /\ tasks' = update(1)
         /\ last' = Call("tooltip", tip_props, {}, TRUE, NoError, 1)
         /\ UNCHANGED <<view_classes, view_style, view_attrs, loop_running, bindings>>

----------------------------------------------------------------------------
(* The event loop *)

\* a direct call of Element.update()
Update ==
    /\ update(1) <= MaxTasks
    /\ tasks' = update(1)
    /\ last' = Call("update", None, {}, FALSE, NoError, 1)
    /\ UNCHANGED <<view_classes, view_style, view_attrs, view_children,
                   loop_running, bindings>>

\* the server starts its event loop: from now on get_running_loop() succeeds
LoopStart ==
    /\ ~loop_running
    /\ loop_running' = TRUE
    /\ last' = Call("loop_start", None, {}, FALSE, NoError, 0)
    /\ UNCHANGED <<view_classes, view_style, view_attrs, view_children, tasks, bindings>>

\* the loop runs one scheduled view.update()
RunTask ==
    /\ loop_running
    /\ tasks > 0
    /\ tasks' = tasks - 1
    /\ last' = Call("run_task", None, {}, FALSE, NoError, 0)
    /\ UNCHANGED <<view_classes, view_style, view_attrs, view_children,
                   loop_running, bindings>>

----------------------------------------------------------------------------
(* Visibility bindings.  A conversion function is a value: the default       *)
(* lambda x: x, the closure over `value`, or a function the caller passes    *)

\* the parameter default `lambda x: x`
Identity == <<"lambda x: x">>
\* def backward(x): return x == value
EqualsValue(value) == <<"x == value", value>>
\* an argument the caller does not pass
Omitted == <<"<omitted>">>

Binding(kind, conversion) == [kind |-> kind, name |-> "visible", conversion |-> conversion]

BindCall(op, forward, backward, value) ==
    [op |-> op, forward |-> forward, backward |-> backward, value |-> value]

bind_visibility_to(forward) ==
    \E fwd \in {IF forward = Omitted THEN Identity ELSE forward} :
        /\ Len(bindings) + 1 <= MaxBindings
        /\ bindings' = Append(bindings, Binding("bind_to", fwd))
        /\ last' = BindCall("bind_visibility_to", forward, Omitted, Omitted)
        /\ UNCHANGED <<view_classes, view_style, view_attrs, view_children,
                       loop_running, tasks>>

\* lines 35-37: the backward bind_visibility_from hands on
backward_from(backward, value) ==
    IF value # None THEN EqualsValue(value)
    ELSE IF backward = Omitted THEN Identity ELSE backward

bind_visibility_from(backward, value) ==
    /\ Len(bindings) + 1 <= MaxBindings
    /\ bindings' = Append(bindings, Binding("bind_from", backward_from(backward, value)))
    /\ last' = BindCall("bind_visibility_from", Omitted, backward, value)
    /\ UNCHANGED <<view_classes, view_style, view_attrs, view_children,
                   loop_running, tasks>>

\* lines 42-44: the backward bind_visibility hands on
backward_both(backward, value) ==
    IF value # None THEN EqualsValue(value)
    ELSE IF backward = Omitted THEN None ELSE backward

bind_visibility(forward, backward, value) ==
    \E fwd \in {IF forward = Omitted THEN Identity ELSE forward} :
        /\ Len(bindings) + 2 <= MaxBindings
        /\ bindings' = bindings \o <<Binding("bind_from", backward_both(backward, value)),
                                     Binding("bind_to", fwd)>>
        /\ last' = BindCall("bind_visibility", forward, backward, value)
        /\ UNCHANGED <<view_classes, view_style, view_attrs, view_children,
                       loop_running, tasks>>

----------------------------------------------------------------------------
(* Inputs: an argument is n pieces joined by the separator; an argument of   *)
(* no piece is the omitted argument (None), and the empty piece alone is ''  *)

\* the ways to spend at most n pieces on three arguments, and on two
Budgets3(n) == {b \in (0..n) \X (0..n) \X (0..n) : b[1] + b[2] + b[3] <= n}
Budgets2(n) == {b \in (0..n) \X (0..n) : b[1] + b[2] <= n}

Arg(pieces, sep, n) ==
    IF n = 0 THEN {None} ELSE {Join(sep, ps) : ps \in [1..n -> pieces]}

\* the strings of at most n pieces
Strs(pieces, sep, n) == {Empty} \cup UNION {Arg(pieces, sep, k) : k \in 1..n}

Calls3(pieces, sep, n) ==
    UNION {Arg(pieces, sep, b[1]) \X Arg(pieces, sep, b[2]) \X Arg(pieces, sep, b[3])
           : b \in Budgets3(n)}

Calls2(pieces, sep, n) ==
    UNION {Arg(pieces, sep, b[1]) \X Arg(pieces, sep, b[2]) : b \in Budgets2(n)}

\* class names, and the empty piece that doubles a blank
ClassPieces == {<<"a">>, <<"b">>, <<>>}
ClassCalls == Calls3(ClassPieces, <<" ">>, MaxPieces)
\* the calls of one piece over the class a and the empty piece
ShortClassCalls == Calls3({<<"a">>, <<>>}, <<" ">>, 1)

\* style declarations: a:1, a:2, b: 1 (a blank after the colon), and the empty
\* piece that a trailing or doubled semicolon leaves
StylePieces == {<<"a", ":", "1">>, <<"a", ":", "2">>, <<"b", ":", " ", "1">>, <<>>}
StyleCalls == Calls3(StylePieces, <<";">>, MaxPieces)
\* the calls of one piece over a:1 and the empty piece
ShortStyleCalls == Calls3({<<"a", ":", "1">>, <<>>}, <<";">>, 1)

\* props: the boolean props a and b, a=1, and a=2=1 with its second '='
PropPieces == {<<"a">>, <<"b">>, <<"a", "=", "1">>, <<"a", "=", "2", "=", "1">>}
PropCalls == Calls2(PropPieces, <<" ">>, MaxPieces)
\* the calls of one piece over a and a=1
ShortPropCalls == Calls2({<<"a">>, <<"a", "=", "1">>}, <<" ">>, 1)
\* the props of a tooltip: none, a, a=1, a=2=1
TooltipProps == Strs(PropPieces \ {<<"b">>}, <<" ">>, 1)

\* conversion functions a caller passes, and values to compare with: None, the
\* falsy 0 and a string
Conversions == {Omitted, <<"f">>}
Values == {None, <<"0">>, <<"on">>}

ClassesCall == \E c \in ClassCalls : classes(c[1], c[2], c[3])
StyleCall == \E c \in StyleCalls : style(c[1], c[2], c[3])
PropsCall == \E c \in PropCalls : props(c[1], c[2])

\* calls of one piece
ShortClassesCall == \E c \in ShortClassCalls : classes(c[1], c[2], c[3])
ShortStyleCall == \E c \in ShortStyleCalls : style(c[1], c[2], c[3])
ShortPropsCall == \E c \in ShortPropCalls : props(c[1], c[2])
TooltipCall == \E p \in TooltipProps : tooltip(p)

BindToCall == \E f \in Conversions : bind_visibility_to(f)
BindFromCall == \E b \in Conversions, v \in Values : bind_visibility_from(b, v)
BindCall2 == \E f \in Conversions, b \in Conversions, v \in Values : bind_visibility(f, b, v)

----------------------------------------------------------------------------
(* The element after construction: the view comes with the classes, style    *)
(* and props its component was built with                                      *)

PresetClasses == Strs(ClassPieces, <<" ">>, MaxPieces)
PresetStyles == Strs(StylePieces, <<";">>, MaxPieces)
\* the attributes among a and b the component sets, each True or '1'
PropNames == {<<"a">>, <<"b">>}
PresetAttrs == UNION {[names -> {PyTrue, <<"1">>}] : names \in SUBSET PropNames}

InitWith(cs, ss, as) ==
    /\ view_classes \in cs
    /\ view_style \in ss
    /\ view_attrs \in as
    /\ view_children = 0
    /\ loop_running = FALSE
    /\ tasks = 0
    /\ bindings = <<>>
    /\ last = Call("init", None, {}, FALSE, NoError, 0)

Init == InitWith({Empty}, {Empty}, {<<>>})

\* every operation of the element on calls of one piece, with the event loop
Next ==
    \/ ShortClassesCall
    \/ ShortStyleCall
    \/ ShortPropsCall
    \/ TooltipCall
    \/ Update
    \/ LoopStart
    \/ RunTask

Spec == Init /\ [][Next]_vars

\* one method at a time, on calls of MaxPieces pieces and every preset
NextClasses == ClassesCall
SpecClasses == InitWith(PresetClasses, {Empty}, {<<>>}) /\ [][NextClasses]_vars

NextStyle == StyleCall
SpecStyle == InitWith({Empty}, PresetStyles, {<<>>}) /\ [][NextStyle]_vars

NextClassesStyle == ClassesCall \/ StyleCall
SpecClassesStyle == InitWith(PresetClasses, PresetStyles, {<<>>}) /\ [][NextClassesStyle]_vars

NextProps == PropsCall
SpecProps == InitWith({Empty}, {Empty}, PresetAttrs) /\ [][NextProps]_vars

NextBind == BindToCall \/ BindFromCall \/ BindCall2
SpecBind == Init /\ [][NextBind]_vars

----------------------------------------------------------------------------
(* Properties *)

\* the class names of a class string
ClassNames(s) == Range(SplitWs(s))

\* the keys of a style string that parses
StyleKeys(s) == Range(Keys(style_str_to_dict(Strip(s, {";", " "})).dict))

\* C1: after classes(add, remove=R, replace=P) returns, no class named in R
\* is in view.classes
C1_RemovedClassesAbsent ==
    last.op = "classes" => last.remove_names \cap ClassNames(view_classes) = {}

\* C2: style(add, remove=R, replace=P) completes normally and afterwards no
\* key named in R is in view.style; stated for the calls whose strings all
\* parse (no ValueError), where only the removal can fail
C2_StyleRemoveCompletes ==
    (last.op = "style" /\ last.raised # "ValueError") =>
        /\ last.raised = NoError
        /\ last.remove_names \cap StyleKeys(view_style) = {}

\* C3: after props(add=A, remove=R) returns, the view attribute of every prop
\* named in R is None
C3_RemovedPropsAreNone ==
    last.op = "props" => \A key \in last.remove_names : getattr(view_attrs, key) = None

RECURSIVE Before(_, _)
\* the text of s before the first ch
Before(s, ch) ==
    IF s = <<>> \/ Head(s) = ch THEN <<>> ELSE <<Head(s)>> \o Before(Tail(s), ch)

RECURSIVE After(_, _)
\* the text of s after the first ch
After(s, ch) ==
    IF s = <<>> THEN <<>> ELSE IF Head(s) = ch THEN Tail(s) ELSE After(Tail(s), ch)

\* the props of the add argument of the last call, in order
AddedProps == SplitWs(OrEmpty(last.add))

\* the number of ch in s
Count(s, ch) == Cardinality({i \in DOMAIN s : s[i] = ch})

\* C4 as stated, for the props of A with at most one '=': after
\* props(add=A, remove=R), each of them without '=' is True on the view and
\* each key=value has the attribute key equal to value
C4_EveryAddedPropSet ==
    last.op = "props" =>
        \A prop \in Range(AddedProps) :
            Count(prop, "=") <= 1 =>
                getattr(view_attrs, Before(prop, "=")) =
                    IF "=" \in Range(prop) THEN After(prop, "=") ELSE PyTrue

\* C4 amended: after props(add=A, remove=R), the last prop of A naming a key
\* decides it: without '=' the attribute is True, written key=value it is
\* the text of value up to a second '='
C4_LastAddedPropSet ==
    last.op = "props" =>
        \A i \in DOMAIN AddedProps :
            (\A j \in DOMAIN AddedProps :
                j > i => Before(AddedProps[j], "=") # Before(AddedProps[i], "="))
            => getattr(view_attrs, Before(AddedProps[i], "=")) =
                   IF "=" \in Range(AddedProps[i])
                   THEN Before(After(AddedProps[i], "="), "=")
                   ELSE PyTrue

\* props(add='a a=1') was called and left a = '1'
C4_Witness ==
    /\ last.op = "props"
    /\ last.add = <<"a", " ", "a", "=", "1">>
    /\ getattr(view_attrs, <<"a">>) = <<"1">>

\* the steps that are calls of an Element method
MethodOps == {"classes", "style", "props", "tooltip", "update"}

\* C5: a method that calls update() n times schedules n view.update() tasks
\* when the loop runs; without a running loop it schedules none, update() is
\* reached only by a call that raised nothing, and the change the method made
\* (classes, style, tooltip child) is on the view
C5_UpdateDefersOntoRunningLoop ==
    [][last'.op \in MethodOps =>
        /\ tasks' = IF loop_running THEN tasks + last'.updates ELSE tasks
        /\ last'.updates \in {0, 1}
        /\ last'.updates = 1 => last'.raised = NoError
        /\ (last'.op = "classes" /\ last'.updates = 1) => view_classes' # view_classes
        /\ (last'.op = "style" /\ last'.updates = 1) => view_style' # view_style
        /\ (last'.op = "tooltip" /\ last'.updates = 1) => view_children' = view_children + 1
        /\ last'.op \in {"update", "tooltip"} => (last'.updates = 1 <=> last'.raised = NoError)
      ]_vars

\* tooltip() added its child and called update() with no loop running:
\* nothing is scheduled
C5_Witness ==
    /\ ~loop_running
    /\ last.op = "tooltip"
    /\ last.updates = 1
    /\ view_children = 1
    /\ tasks = 0

\* C6: classes() and style() call update() exactly when the string they
\* compute differs from the stored one, and the same add-only call made
\* twice in a row changes nothing and calls no update() the second time
C6_RedrawOnlyOnChange ==
    [][/\ last'.op = "classes" => (last'.updates = 1 <=> view_classes' # view_classes)
       /\ last'.op = "style" => (last'.updates = 1 <=> view_style' # view_style)
       /\ (/\ last'.op \in {"classes", "style"}
           /\ last.op = last'.op
           /\ last.only_add /\ last'.only_add
           /\ last.add = last'.add)
          => /\ view_classes' = view_classes
             /\ view_style' = view_style
             /\ last'.updates = 0
      ]_vars

\* style(add='b: 1') on the stored style 'b:1', which only an earlier call
\* leaves: no update()
C6_Witness ==
    /\ last.op = "style"
    /\ last.only_add
    /\ last.add = <<"b", ":", " ", "1">>
    /\ last.updates = 0
    /\ view_style = <<"b", ":", "1">>

\* the backward conversion C7 states for a call
ClaimedBackward(call) ==
    IF call.value # None THEN EqualsValue(call.value)
    ELSE IF call.backward = Omitted THEN Identity ELSE call.backward

\* C7: bind_visibility_from and bind_visibility hand bind_from the test
\* x == value when value is not None, else the caller's backward, the
\* identity by default; bind_visibility then registers bind_to with forward
C7_BackwardHandedOn ==
    /\ last.op = "bind_visibility_from" =>
           bindings[Len(bindings)] = Binding("bind_from", ClaimedBackward(last))
    /\ last.op = "bind_visibility" =>
           /\ bindings[Len(bindings) - 1] = Binding("bind_from", ClaimedBackward(last))
           /\ bindings[Len(bindings)] =
                  Binding("bind_to", IF last.forward = Omitted THEN Identity ELSE last.forward)

\* some view attribute has another value after the step than before
AttrChanged ==
    \E key \in DOMAIN view_attrs \cup DOMAIN view_attrs' :
        getattr(view_attrs', key) # getattr(view_attrs, key)

\* C8: props() calls update() if and only if some view attribute has a
\* different value after the call than before it
C8_RedrawIffAttrChanged ==
    [][last'.op = "props" => (last'.updates = 1 <=> AttrChanged)]_vars

\* what lines 94-104 do instead: update() is called if and only if some view
\* attribute has a different value after the call or a prop named in remove
\* was not None before it, also when add sets it back
PropsRedrawCondition ==
    [][last'.op = "props" =>
        (last'.updates = 1 <=>
            \/ AttrChanged
            \/ \E key \in last'.remove_names : getattr(view_attrs, key) # None)
      ]_vars

====
